---- MODULE Spec2Model ----
(***************************************************************************)
(* Kaiju rampage: building registry, interaction detection, destruction    *)
(* engine and debris lifetime simulation.                                  *)
(*                                                                         *)
(* Units.  Lengths are whole metres.  Time is counted in steps of 25 ms,   *)
(* the largest step that divides every duration of the program (0.05 s     *)
(* clamp, 0.3 s cooldown, 1.5 s fade, 5..8 s chunk life, 2..4.5 s dust     *)
(* life, 2.5 s combo window).  Shake is counted in thousandths.            *)
(* The opacity of a chunk material is kept as a fraction num/den (see      *)
(* Opacity); the scale and the opacity of a dust particle are counted in   *)
(* thousandths, rounded down.                                              *)
(***************************************************************************)
EXTENDS Integers, Sequences, FiniteSets, TLC

----------------------------------------------------------------------------
(* Bounds of the model *)

\* real time (in 25 ms steps) over which inputs and frames interleave freely
MaxTime == 3
\* number of input events (clicks, keys, mouse moves) of one session
MaxInputs == 4
\* longest interval between two frames (a frame hitch longer than the clamp)
MaxRawDt == 3
\* number of distinct streams Math.random() may produce
NumSeeds == 2
\* the debris specification: at most WatchInputs inputs arrive before the first
\* frame, then frames follow at a steady rate up to WatchUntil
WatchInputs == 2
WatchUntil == 330
\* the cooldown specification: clicks and frames interleave up to PunchTime
PunchTime == 12
PunchInputs == 4
\* the expiry specification: direct calls of the destroy entry point before the
\* first frame
ExpireInputs == 1
\* the builder specification: direct calls of the destroy entry point after the
\* meshes are built
BuildInputs == 2
\* the title screen specification: input events and steps of real time of a
\* session that starts on the title screen
IdleInputs == 3
IdleTime == 2

----------------------------------------------------------------------------
(* Program constants *)

MaxDt == 2               \* Math.min(dt, 0.05)
PunchCooldown == 12      \* punchCooldown.current = 0.3
MeleeRange == 12         \* reach = radius + 12
ShortRange == 8          \* dist < 8
StompRadiusSq == 625     \* dx*dx + dz*dz < 625
CharacterRadius == 4     \* collR = radius + 4
RadiusMargin == 2        \* radius: maxR + 2
ChunkSizeXZ == 3         \* Math.round(bw / 3)
ChunkSizeY == 4          \* Math.round(height / 4)
MinDivisions == 2        \* Math.max(2, ...)
MaxChunks == 400         \* while (chunks.current.length > 400)
FadeTime == 60           \* c.life < 1.5
LifeMin == 200           \* life: 5 + Math.random() * 3
LifeSpan == 120
SizeMinPct == 65         \* cw * (0.65 + Math.random() * 0.35), in per cent
SizeSpanPct == 35
DustBase == 25           \* 25 + Math.floor(size * 1.5)
DustLifeMin == 80        \* 2 + Math.random() * 2.5
DustLifeSpan == 100
DustMaxOpacity == 400    \* (life / maxLife) * 0.4, in thousandths
DustGrowth == 4          \* 1 + (1 - life / maxLife) * 4
DustSpawnOpacity == 500  \* opacity: 0.5 of a new dust material, in thousandths
DustSpawnScaleMin == 1500 \* scale = 1.5 + Math.random() * 3.5, in thousandths
DustSpawnScaleSpan == 3500
ComboTime == 100         \* comboTimer: 2.5
ComboTextFrom == 2       \* newCombo > 2
ShakeDestroy == 800      \* addShake(0.8)
ShakeStomp == 2000       \* addShake(2.0)
ShakeSmash == 300        \* addShake(0.3)
ShakeMax == 3000         \* Math.min(s.shakeAmount + amount, 3.0)
ShakeDecayPct == 88      \* s.shakeAmount * 0.88
ShakeFloor == 10         \* newShake < 0.01 ? 0 : newShake
WalkSpeed == 1           \* speed 40 m/s = 1 m per 25 ms
FloorHeight == 32        \* floorHeight = 3.2, in tenths
WindowRise == 256        \* floorHeight * 0.55 + windowH / 2 = 1.76 + 0.8, in hundredths
WindowTopGap == 50       \* wy + windowH / 2 > height - 0.5, in hundredths
WindowWallMin == 4       \* if (wallLen < 4) continue
WindowInset == 20        \* (wallLen - 2) / windowSpacing, in tenths
WindowSpacing == 35      \* windowSpacing 3.5, in tenths
WindowSpacingModern == 28 \* windowSpacing 2.8 for style modern, in tenths
WindowEvery == 3         \* i % 3 === 0
CorniceEvery == 4        \* i % 4 === 0
CorniceWallMin == 2      \* if (wallLen < 2) continue
CorniceMidAbove == 8     \* if (height > 8) levels.push(height * 0.5)
CorniceLowAbove == 14    \* if (height > 14) levels.push(height * 0.33)
GableBelow == 20         \* h < 20
GableChance == 3         \* Math.random() > 0.3, in tenths
GablePitchPct == 35      \* gableH = Math.min(bw, bd) * 0.35
GableMeshes == 4         \* two slopes and two gable ends
CityWindowWallMin == 3   \* CityBuildings: if (wallLen < 3) continue
CityWindowInset == 15    \* CityBuildings: (wallLen - 1.5) / spacing, in tenths
CityWindowSpacing == 30  \* CityBuildings: spacing = 3.0, in tenths
AltWindowEvery == 2      \* CityBuildings variant: i % 2 === 0
WallMinPerCent == 1      \* createWallGeo: if (len < 0.01) continue, in hundredths

----------------------------------------------------------------------------
(* Arithmetic helpers *)

Min(a, b) == IF a < b THEN a ELSE b
Max(a, b) == IF a > b THEN a ELSE b

\* Math.floor(n / d) written where Math.round(n / d) is meant
RoundDown(n, d) == n \div d

\* Math.round(n / d) for n >= 0, d > 0: JavaScript rounds halves up
Round(n, d) == (2 * n + d) \div (2 * d)

\* Math.sqrt, exact on the perfect squares the city data produces and rounded
\* down to a whole number elsewhere
Sqrt(n) == CHOOSE r \in 0..n : r * r <= n /\ n < (r + 1) * (r + 1)

RECURSIVE SumSeq(_)
SumSeq(s) == IF s = <<>> THEN 0 ELSE Head(s) + SumSeq(Tail(s))

RECURSIVE MinSeq(_)
MinSeq(s) == IF Len(s) = 1 THEN s[1] ELSE Min(Head(s), MinSeq(Tail(s)))

RECURSIVE MaxSeq(_)
MaxSeq(s) == IF Len(s) = 1 THEN s[1] ELSE Max(Head(s), MaxSeq(Tail(s)))

----------------------------------------------------------------------------
(* City data and the building registry *)

\* a rectangular footprint as the polygon of its four corners
Rect(x0, x1, z0, z1) == << <<x0, z0>>, <<x1, z0>>, <<x1, z1>>, <<x0, z1>> >>

\* data.json: buildings as { p, h, s, l?, n? }
CityData ==
  << [p |-> Rect(-3, 3, -10, -2),   h |-> 8,  s |-> "residential", l |-> "",       n |-> ""],
     [p |-> Rect(-12, 12, 15, 33),  h |-> 36, s |-> "church",      l |-> "church", n |-> "Basilica"],
     [p |-> Rect(-3, 3, -18, -10),  h |-> 8,  s |-> "industrial",  l |-> "",       n |-> ""],
     [p |-> Rect(-18, -12, 16, 24), h |-> 12, s |-> "commercial",  l |-> "",       n |-> ""] >>

NumBuildings == Len(CityData)
Indices == 0 .. NumBuildings - 1

\* processBuildingData: one BuildingState per footprint record
ProcessBuilding(b, i) ==
  LET poly == b.p
      n    == Len(poly)
      xs   == [k \in 1..n |-> poly[k][1]]
      zs   == [k \in 1..n |-> poly[k][2]]
      cx   == SumSeq(xs) \div n
      cz   == SumSeq(zs) \div n
      maxR == MaxSeq([k \in 1..n |-> Sqrt((xs[k] - cx) * (xs[k] - cx) + (zs[k] - cz) * (zs[k] - cz))])
  IN [ data      |-> b,
       index     |-> i,
       destroyed |-> FALSE,
       centroid  |-> <<cx, -cz>>,
       radius    |-> maxR + RadiusMargin,
       name      |-> b.n,
       isLandmark|-> b.l # "",
       landmark  |-> b.l,
       style     |-> b.s,
       height    |-> b.h,
       bbox      |-> [minX |-> MinSeq(xs), maxX |-> MaxSeq(xs),
                      minZ |-> MinSeq(zs), maxZ |-> MaxSeq(zs),
                      w |-> MaxSeq(xs) - MinSeq(xs), d |-> MaxSeq(zs) - MinSeq(zs)] ]

ProcessBuildingData == [i \in Indices |-> ProcessBuilding(CityData[i + 1], i)]

----------------------------------------------------------------------------
(* State *)

VARIABLES
  started,        \* gameStore.started
  pointerLock,    \* document.pointerLockElement is the canvas
  keys,           \* inputRef.current.keys: the set of key codes held down
  yaw,            \* inputRef.current.yaw, in quarter turns
  pos,            \* kaiju body position <<x, z>>
  punchCooldown,  \* Kaiju punchCooldown.current
  buildings,      \* the registry: index -> BuildingState
  destroyedSet,   \* Buildings destroyedSet.current
  parts,          \* buildingMeshes: index -> standing mesh parts in the scene
  chunks,         \* Buildings chunks.current
  nextId,         \* number of chunks created so far (creation order)
  material,       \* chunkMat of each destroyed building: index -> material
  dust,           \* Buildings dust.current
  destroyed,      \* gameStore.destroyed (score counter)
  comboCount,     \* gameStore.comboCount
  comboTimer,     \* gameStore.comboTimer
  comboText,      \* gameStore.comboText
  shakeAmount,    \* gameStore.shakeAmount
  flashCount,     \* flash overlays appended to the document so far
  now,            \* real time
  sinceFrame,     \* real time since the previous frame (the next frame's raw dt)
  phase,          \* "idle", or "kaiju" between the two frame callbacks of one frame
  strikeAt,       \* real time of the last melee strike that passed the cooldown, or -1
  inputs,         \* number of input events handled so far
  rng,            \* the stream Math.random() produces in this session
  sceneChunks,    \* ids of the chunk meshes that are children of the scene
  worldBodies,    \* ids of the chunk bodies that are in physicsWorld
  initialized,    \* Buildings initialized.current: the build effect has run
  cityMeshes      \* CityBuildings meshesRef.current, as the geometries built

vars == << started, pointerLock, keys, yaw, pos, punchCooldown, buildings,
           destroyedSet, parts, chunks, nextId, material, dust, destroyed,
           comboCount, comboTimer, comboText, shakeAmount, flashCount,
           now, sinceFrame, phase, strikeAt, inputs, rng,
           sceneChunks, worldBodies, initialized, cityMeshes >>

Seeds == 0 .. NumSeeds - 1

\* the k-th draw of Math.random() in random stream `seed`, scaled to 0 .. span-1
Random(seed, k, span) == (seed * (7 * k + 3)) % span

\* a rendered opacity num/den; the library wall materials are opaque
Opacity(num, den) == [num |-> num, den |-> den]
Opaque == [transparent |-> FALSE, opacity |-> Opacity(1, 1)]

\* the part of the state the destruction engine and the store work on
World == [ buildings |-> buildings, destroyedSet |-> destroyedSet, parts |-> parts,
           chunks |-> chunks, nextId |-> nextId, material |-> material, dust |-> dust,
           destroyed |-> destroyed, comboCount |-> comboCount, comboTimer |-> comboTimer,
           comboText |-> comboText, shakeAmount |-> shakeAmount, flashCount |-> flashCount,
           sceneChunks |-> sceneChunks, worldBodies |-> worldBodies ]

\* write the fields of the world back to the state
SetWorld(world) ==
  \E w \in {world} :
    /\ buildings' = w.buildings
    /\ destroyedSet' = w.destroyedSet
    /\ parts' = w.parts
    /\ chunks' = w.chunks
    /\ nextId' = w.nextId
    /\ material' = w.material
    /\ dust' = w.dust
    /\ destroyed' = w.destroyed
    /\ comboCount' = w.comboCount
    /\ comboTimer' = w.comboTimer
    /\ comboText' = w.comboText
    /\ shakeAmount' = w.shakeAmount
    /\ flashCount' = w.flashCount
    /\ sceneChunks' = w.sceneChunks
    /\ worldBodies' = w.worldBodies

----------------------------------------------------------------------------
(* Game store *)

\* the store update written as a rebuild of the list that marks only `index`
StoreDestroyBuildingRebuild(w, index) ==
  IF index \notin DOMAIN w.buildings \/ w.buildings[index].destroyed THEN w
  ELSE [w EXCEPT !.buildings = [i \in DOMAIN w.buildings |->
                                  [w.buildings[i] EXCEPT !.destroyed = (i = index)]],
                 !.destroyed = w.destroyed + 1,
                 !.comboCount = w.comboCount + 1,
                 !.comboTimer = ComboTime]

\* useGameStore.destroyBuilding(index)
StoreDestroyBuilding(w, index) ==
  IF index \notin DOMAIN w.buildings \/ w.buildings[index].destroyed THEN w
  ELSE LET b        == w.buildings[index]
           newCombo == w.comboCount + 1
           text     == IF b.name # "" THEN <<"destroyed", b.name>>
                       ELSE IF newCombo > ComboTextFrom THEN <<"combo", newCombo>>
                       ELSE <<>>
       IN [w EXCEPT !.buildings[index].destroyed = TRUE,
                    !.destroyed = w.destroyed + 1,
                    !.comboCount = newCombo,
                    !.comboTimer = ComboTime,
                    !.comboText = IF text # <<>> THEN text ELSE w.comboText]

\* addShake without Math.min(..., 3.0)
AddShakeUnclamped(w, amount) == [w EXCEPT !.shakeAmount = w.shakeAmount + amount]

\* useGameStore.addShake(amount)
AddShake(w, amount) == [w EXCEPT !.shakeAmount = Min(w.shakeAmount + amount, ShakeMax)]

\* tickCombo with a reset that leaves the count: set({ comboTimer: 0, comboText: '' })
TickComboKeepsCount(w, dt) ==
  LET w1 == IF w.comboTimer > 0
            THEN IF w.comboTimer - dt <= 0
                 THEN [w EXCEPT !.comboTimer = 0, !.comboText = <<>>]
                 ELSE [w EXCEPT !.comboTimer = w.comboTimer - dt]
            ELSE w
      newShake == (w.shakeAmount * ShakeDecayPct) \div 100
  IN IF w.shakeAmount > 0
     THEN [w1 EXCEPT !.shakeAmount = IF newShake < ShakeFloor THEN 0 ELSE newShake]
     ELSE w1

\* useGameStore.tickCombo(dt): both branches read the state fetched on entry
TickCombo(w, dt) ==
  LET w1 == IF w.comboTimer > 0
            THEN IF w.comboTimer - dt <= 0
                 THEN [w EXCEPT !.comboTimer = 0, !.comboCount = 0, !.comboText = <<>>]
                 ELSE [w EXCEPT !.comboTimer = w.comboTimer - dt]
            ELSE w
      newShake == (w.shakeAmount * ShakeDecayPct) \div 100
  IN IF w.shakeAmount > 0
     THEN [w1 EXCEPT !.shakeAmount = IF newShake < ShakeFloor THEN 0 ELSE newShake]
     ELSE w1

----------------------------------------------------------------------------
(* Destruction engine *)

\* nx, nz, ny of destroyBuilding
CountX(b) == Max(MinDivisions, Round(b.bbox.w, ChunkSizeXZ))
CountZ(b) == Max(MinDivisions, Round(b.bbox.d, ChunkSizeXZ))
CountY(b) == Max(MinDivisions, Round(b.height, ChunkSizeY))

\* a chunk box of up to 1.35 times its cell: 0.65 + Math.random() * 0.7
ChunkMeshOversized(b, nx, nz, ix, iz, iy, id, seed) ==
  [spawnAt |-> << 2 * nx * b.bbox.minX + b.bbox.w * (2 * ix + 1),
                  b.height * (2 * iy + 1),
                  -(2 * nz * b.bbox.minZ + b.bbox.d * (2 * iz + 1)) >>,
   size    |-> << b.bbox.w * (SizeMinPct + 2 * Random(seed, 3 * id, SizeSpanPct)),
                  b.height * (SizeMinPct + 2 * Random(seed, 3 * id + 1, SizeSpanPct)),
                  b.bbox.d * (SizeMinPct + 2 * Random(seed, 3 * id + 2, SizeSpanPct)) >>]

\* the mesh and the body of the cell (ix, iz, iy) of a grid of nx by nz cells:
\* m.position.set(cx, cy, cz) and BoxGeometry(sw, sh, sd), with cw = bw / nx,
\* ch = height / ny and cd = bd / nz.  The fractions are kept exact: spawnAt
\* is << cx, cy, cz >> in units of cw / 2, ch / 2 and cd / 2 over nx, ny, nz
\* (cx = spawnAt[1] / (2 nx)), size is << sw, sh, sd >> in hundredths over
\* nx, ny, nz (sw = size[1] / (100 nx)).
ChunkMesh(b, nx, nz, ix, iz, iy, id, seed) ==
  [spawnAt |-> << 2 * nx * b.bbox.minX + b.bbox.w * (2 * ix + 1),
                  b.height * (2 * iy + 1),
                  -(2 * nz * b.bbox.minZ + b.bbox.d * (2 * iz + 1)) >>,
   size    |-> << b.bbox.w * (SizeMinPct + Random(seed, 3 * id, SizeSpanPct)),
                  b.height * (SizeMinPct + Random(seed, 3 * id + 1, SizeSpanPct)),
                  b.bbox.d * (SizeMinPct + Random(seed, 3 * id + 2, SizeSpanPct)) >>]

\* chunks.current.push({ mesh, body, life }) for every cell, ix in the outer
\* loop, iz in the middle one, iy in the inner one; all meshes of one building
\* are made with the same chunkMat.  cell is << ix, iz, iy >>: the mesh and
\* the body made for the chunk are ChunkMesh of that cell.
NewChunks(b, firstId, seed) ==
  LET nz == CountZ(b)
      ny == CountY(b)
  IN [k \in 1 .. CountX(b) * nz * ny |->
        [id |-> firstId + k - 1, owner |-> b.index,
         life |-> LifeMin + Random(seed, firstId + k - 1, LifeSpan),
         cell |-> << (k - 1) \div (nz * ny), ((k - 1) \div ny) % nz, (k - 1) % ny >>]]

\* the count with Math.ceil in place of Math.floor
DustCountRoundedUp(b) == DustBase + (3 * Max(Max(b.bbox.w, b.bbox.d), b.height) + 1) \div 2

\* count of spawnDust(x, y, z, size), size = Math.max(bw, bd, height)
DustCount(b) == DustBase + (3 * Max(Max(b.bbox.w, b.bbox.d), b.height)) \div 2

\* spawnDust: life and maxLife are two independent draws; scale and opacity
\* are what the mesh and its material are given, in thousandths
NewDust(b, seed) ==
  [j \in 1 .. DustCount(b) |->
     [life    |-> DustLifeMin + Random(seed, 2 * j, DustLifeSpan),
      maxLife |-> DustLifeMin + Random(seed, 5 * j + 1, DustLifeSpan),
      scale   |-> DustSpawnScaleMin + Random(seed, 3 * j + 2, DustSpawnScaleSpan),
      opacity |-> DustSpawnOpacity]]

\* the removal loop without bg.parts = []: the group keeps its meshes
ShatterKeepParts(w, b, nc, seed) ==
  [w EXCEPT !.material[b.index] = Opaque,
            !.chunks = w.chunks \o nc,
            !.sceneChunks = w.sceneChunks \cup {nc[k].id : k \in 1 .. Len(nc)},
            !.worldBodies = w.worldBodies \cup {nc[k].id : k \in 1 .. Len(nc)},
            !.nextId = w.nextId + Len(nc),
            !.dust = w.dust \o NewDust(b, seed),
            !.flashCount = w.flashCount + 1]

\* destroyBuilding from the removal of the standing parts on: w is the world
\* after the store update and the shake, b the building, nc its chunks
Shatter(w, b, nc, seed) ==
  [w EXCEPT !.parts[b.index] = {},
            !.material[b.index] = Opaque,
            !.chunks = w.chunks \o nc,
            !.sceneChunks = w.sceneChunks \cup {nc[k].id : k \in 1 .. Len(nc)},
            !.worldBodies = w.worldBodies \cup {nc[k].id : k \in 1 .. Len(nc)},
            !.nextId = w.nextId + Len(nc),
            !.dust = w.dust \o NewDust(b, seed),
            !.flashCount = w.flashCount + 1]

\* destroyBuilding without its first line (if (destroyedSet.current.has(bIndex)) return)
DestroyBuildingUnguarded(w, bIndex, seed) ==
  Shatter(AddShake(StoreDestroyBuilding([w EXCEPT !.destroyedSet = w.destroyedSet \cup {bIndex}],
                                        bIndex),
                   ShakeDestroy),
          w.buildings[bIndex],
          NewChunks(w.buildings[bIndex], w.nextId, seed),
          seed)

\* Buildings destroyBuilding(bIndex, kaijuX, kaijuZ)
DestroyBuilding(w, bIndex, seed) ==
  IF bIndex \in w.destroyedSet THEN w
  ELSE Shatter(AddShake(StoreDestroyBuilding([w EXCEPT !.destroyedSet = w.destroyedSet \cup {bIndex}],
                                             bIndex),
                        ShakeDestroy),
               w.buildings[bIndex],
               NewChunks(w.buildings[bIndex], w.nextId, seed),
               seed)

----------------------------------------------------------------------------
(* Interaction detector (Kaiju) *)

\* facing directions explored, in quarter turns: yaw = 0 and yaw = pi
Yaws == {0, 2}

\* (-Math.sin(yaw), -Math.cos(yaw))
Forward(y) == CASE y = 0 -> <<0, -1>>
                [] y = 1 -> <<-1, 0>>
                [] y = 2 -> <<0, 1>>
                [] y = 3 -> <<1, 0>>

\* dx * dx + dz * dz for the vector from p to the centroid of b
DistSq(b, p) ==
  (b.centroid[1] - p[1]) * (b.centroid[1] - p[1]) + (b.centroid[2] - p[2]) * (b.centroid[2] - p[2])

\* Math.sqrt(d2) < r, for r > 0
DistLess(d2, r) == d2 < r * r

\* b.radius || (b.bbox.w / 2 + b.bbox.d / 2) / 2
RadiusOf(b) == IF b.radius # 0 THEN b.radius ELSE (b.bbox.w + b.bbox.d) \div 4

\* the melee test without the short-range override (dot > 0 alone)
MeleeHitFacingOnly(b, p, y) ==
  LET dx  == b.centroid[1] - p[1]
      dz  == b.centroid[2] - p[2]
      dot == dx * Forward(y)[1] + dz * Forward(y)[2]
  IN /\ DistLess(DistSq(b, p), RadiusOf(b) + MeleeRange)
     /\ dot > 0

\* performSmash: the test guarding destroy(i, px, pz)
MeleeHit(b, p, y) ==
  LET dx  == b.centroid[1] - p[1]
      dz  == b.centroid[2] - p[2]
      dot == dx * Forward(y)[1] + dz * Forward(y)[2]
  IN /\ DistLess(DistSq(b, p), RadiusOf(b) + MeleeRange)
     /\ (dot > 0 \/ DistLess(DistSq(b, p), ShortRange))

\* the stomp test written with <= in place of <
StompHitInclusive(b, p) == DistSq(b, p) <= StompRadiusSq

\* stomp: the test guarding destroy(i, body.position.x, body.position.z)
StompHit(b, p) == DistSq(b, p) < StompRadiusSq

\* the walk-through test against the bare radius (collR without the + 4)
AmbientHitBareRadius(b, p) == DistLess(DistSq(b, p), RadiusOf(b))

\* auto-destroy on walk-through: dist < collR
AmbientHit(b, p) == DistLess(DistSq(b, p), RadiusOf(b) + CharacterRadius)

\* for (let i = 0; i < buildings.length; i++) { if (b.destroyed) continue; if (hit) destroy(i, ...) }
RECURSIVE DestroyLoop(_, _, _, _, _, _)
DestroyLoop(w, i, kind, p, y, seed) ==
  IF i \notin DOMAIN w.buildings THEN w
  ELSE LET b   == w.buildings[i]
           hit == CASE kind = "melee"   -> MeleeHit(b, p, y)
                    [] kind = "stomp"   -> StompHit(b, p)
                    [] kind = "ambient" -> AmbientHit(b, p)
           w1  == IF ~b.destroyed /\ hit THEN DestroyBuilding(w, i, seed) ELSE w
       IN DestroyLoop(w1, i + 1, kind, p, y, seed)

\* what the input handlers leave alone besides the fields they write
InputFrame == UNCHANGED << punchCooldown, buildings, destroyedSet, parts, chunks, nextId,
                           material, dust, destroyed, comboCount, comboTimer, comboText,
                           shakeAmount, flashCount, now, sinceFrame, phase, strikeAt, rng,
                           sceneChunks, worldBodies, initialized, cityMeshes >>

\* an input event is delivered between frames; maxIn and until bound the session
Input(maxIn, until) ==
  /\ phase = "idle"
  /\ inputs < maxIn
  /\ now <= until
  /\ inputs' = inputs + 1

\* title screen onClick: startGame
StartGame(maxIn, until) ==
  /\ Input(maxIn, until)
  /\ ~started
  /\ started' = TRUE
  /\ UNCHANGED << pointerLock, keys, yaw, pos >>
  /\ InputFrame

\* document click while the pointer is not locked: canvas.requestPointerLock()
ClickLock(maxIn, until) ==
  /\ Input(maxIn, until)
  /\ started
  /\ ~pointerLock
  /\ pointerLock' = TRUE
  /\ UNCHANGED << started, keys, yaw, pos >>
  /\ InputFrame

\* performSmash with a break after the first building hit
PerformSmashFirstOnly(w, p, y, seed) ==
  LET hits == {i \in DOMAIN w.buildings :
                 ~w.buildings[i].destroyed /\ MeleeHit(w.buildings[i], p, y)}
  IN AddShake(IF hits = {} THEN w
              ELSE DestroyBuilding(w, CHOOSE i \in hits : \A j \in hits : i <= j, seed),
              ShakeSmash)

\* performSmash past the cooldown guard
PerformSmash(w, p, y, seed) == AddShake(DestroyLoop(w, 0, "melee", p, y, seed), ShakeSmash)

\* a click handler whose blocked branch restarts the cooldown
ClickSmashRestarts(maxIn, until) ==
  /\ Input(maxIn, until)
  /\ started
  /\ pointerLock
  /\ IF punchCooldown > 0
     THEN /\ punchCooldown' = PunchCooldown
          /\ UNCHANGED << buildings, destroyedSet, parts, chunks, nextId,
                          material, dust, destroyed, comboCount, comboTimer, comboText,
                          shakeAmount, flashCount, strikeAt, sceneChunks, worldBodies >>
     ELSE /\ punchCooldown' = PunchCooldown
          /\ SetWorld(PerformSmash(World, pos, yaw, rng))
          /\ strikeAt' = now
  /\ UNCHANGED << started, pointerLock, keys, yaw, pos, now, sinceFrame, phase, rng,
                  initialized, cityMeshes >>

\* document click with the pointer locked: performSmash()
ClickSmash(maxIn, until) ==
  /\ Input(maxIn, until)
  /\ started
  /\ pointerLock
  /\ IF punchCooldown > 0
     THEN UNCHANGED << punchCooldown, buildings, destroyedSet, parts, chunks, nextId,
                       material, dust, destroyed, comboCount, comboTimer, comboText,
                       shakeAmount, flashCount, strikeAt, sceneChunks, worldBodies >>
     ELSE /\ punchCooldown' = PunchCooldown
          /\ SetWorld(PerformSmash(World, pos, yaw, rng))
          /\ strikeAt' = now
  /\ UNCHANGED << started, pointerLock, keys, yaw, pos, now, sinceFrame, phase, rng,
                  initialized, cityMeshes >>

\* onClick without its first line (if (!started) return): a click on the
\* title screen locks the pointer, the next one strikes
ClickIdleUnguarded(maxIn, until) ==
  /\ Input(maxIn, until)
  /\ ~started
  /\ IF ~pointerLock
     THEN /\ pointerLock' = TRUE
          /\ UNCHANGED << punchCooldown, buildings, destroyedSet, parts, chunks, nextId,
                          material, dust, destroyed, comboCount, comboTimer, comboText,
                          shakeAmount, flashCount, strikeAt, sceneChunks, worldBodies >>
     ELSE /\ punchCooldown' = PunchCooldown
          /\ SetWorld(PerformSmash(World, pos, yaw, rng))
          /\ strikeAt' = now
          /\ UNCHANGED pointerLock
  /\ UNCHANGED << started, keys, yaw, pos, now, sinceFrame, phase, rng,
                  initialized, cityMeshes >>

\* document click before the game has started: onClick returns on its first line
ClickIdle(maxIn, until) ==
  /\ Input(maxIn, until)
  /\ ~started
  /\ UNCHANGED << started, pointerLock, keys, yaw, pos >>
  /\ InputFrame

\* keydown / keyup of useInput
KeyCodes == {"Space", "KeyW"}

KeyDown(maxIn, until) ==
  /\ Input(maxIn, until)
  /\ \E code \in KeyCodes \ keys : keys' = keys \cup {code}
  /\ UNCHANGED << started, pointerLock, yaw, pos >>
  /\ InputFrame

KeyUp(maxIn, until) ==
  /\ Input(maxIn, until)
  /\ \E code \in keys : keys' = keys \ {code}
  /\ UNCHANGED << started, pointerLock, yaw, pos >>
  /\ InputFrame

\* mousemove of useInput: ignored unless the pointer is locked
MouseMove(maxIn, until) ==
  /\ Input(maxIn, until)
  /\ pointerLock
  /\ \E y \in Yaws \ {yaw} : yaw' = y
  /\ UNCHANGED << started, pointerLock, keys, pos >>
  /\ InputFrame

\* a call of window.__destroyBuilding(i, x, z) from outside the Kaiju loops
DirectDestroy(maxIn, until) ==
  /\ Input(maxIn, until)
  /\ \E i \in DOMAIN buildings : SetWorld(DestroyBuilding(World, i, rng))
  /\ UNCHANGED << started, pointerLock, keys, yaw, pos, punchCooldown, now, sinceFrame,
                  phase, strikeAt, rng, initialized, cityMeshes >>

\* real time passes between two frames
Advance(until) ==
  /\ phase = "idle"
  /\ now < until
  /\ sinceFrame < MaxRawDt
  /\ now' = now + 1
  /\ sinceFrame' = sinceFrame + 1
  /\ UNCHANGED << started, pointerLock, keys, yaw, pos, punchCooldown, buildings, destroyedSet,
                  parts, chunks, nextId, material, dust, destroyed, comboCount, comboTimer,
                  comboText, shakeAmount, flashCount, phase, strikeAt, inputs, rng,
                  sceneChunks, worldBodies, initialized, cityMeshes >>

\* no input any more: the next frame comes one clamp interval after the last
SteadyAdvance(from, until) ==
  /\ phase = "idle"
  /\ sinceFrame = 0
  /\ now >= from
  /\ now < until
  /\ now' = now + MaxDt
  /\ sinceFrame' = MaxDt
  /\ UNCHANGED << started, pointerLock, keys, yaw, pos, punchCooldown, buildings, destroyedSet,
                  parts, chunks, nextId, material, dust, destroyed, comboCount, comboTimer,
                  comboText, shakeAmount, flashCount, phase, strikeAt, inputs, rng,
                  sceneChunks, worldBodies, initialized, cityMeshes >>

----------------------------------------------------------------------------
(* Physics / lifetime simulator (Buildings frame callback) *)

\* a frame callback that uses the raw frame delta as it comes
ClampDtOff(rawDt) == rawDt

\* dt = Math.min(dt, 0.05) in the Buildings callback and
\* const dt = Math.min(rawDt, 0.05) in the Kaiju callback
ClampDt(rawDt) == Min(rawDt, MaxDt)

\* an ageing that stops once a chunk has started to fade
AgeChunksSkipFading(cs, dt) ==
  [k \in 1 .. Len(cs) |-> [cs[k] EXCEPT !.life = IF @ < FadeTime THEN @ ELSE @ - dt]]

\* c.life -= dt, for every chunk
AgeChunks(cs, dt) == [k \in 1 .. Len(cs) |-> [cs[k] EXCEPT !.life = @ - dt]]

\* the expiry loop run from index 0 up: after a splice the next chunk slides
\* into the index just visited and is passed over, so of a run of expired
\* chunks every second one stays in the list
RemoveExpiredForward(cs) ==
  LET runStart(k) == CHOOSE j \in 1 .. k :
                       /\ \A m \in j .. k : cs[m].life <= 0
                       /\ (j = 1 \/ cs[j - 1].life > 0)
      stays(k)    == cs[k].life > 0 \/ (k - runStart(k)) % 2 = 1
      marked      == [k \in 1 .. Len(cs) |-> [c |-> cs[k], stays |-> stays(k)]]
      kept        == SelectSeq(marked, LAMBDA e : e.stays)
  IN [k \in 1 .. Len(kept) |-> kept[k].c]

\* if (c.life <= 0) chunks.current.splice(i, 1): the loop runs from the last
\* index down, so a removal never moves a chunk that is still to be visited
RemoveExpired(cs) == SelectSeq(cs, LAMBDA c : c.life > 0)

\* if (c.life < 1.5) { material.transparent = true; material.opacity = c.life / 1.5 }
\* The loop visits indices in decreasing order and the chunks of one building
\* share one material, so the write that stays is that of the fading chunk of
\* lowest index.
FadeMaterials(mat, cs) ==
  [o \in DOMAIN mat |->
     LET fading == {k \in 1 .. Len(cs) : cs[k].owner = o /\ cs[k].life < FadeTime}
     IN IF fading = {} THEN mat[o]
        ELSE LET k == CHOOSE j \in fading : \A j2 \in fading : j <= j2
             IN [transparent |-> TRUE, opacity |-> Opacity(cs[k].life, FadeTime)]]

\* the cap written with pop() in place of shift(): the newest chunks go
CapChunksFromBack(cs) ==
  IF Len(cs) > MaxChunks THEN SubSeq(cs, 1, MaxChunks) ELSE cs

\* while (chunks.current.length > 400) chunks.current.shift()
CapChunks(cs) ==
  IF Len(cs) > MaxChunks THEN SubSeq(cs, Len(cs) - MaxChunks + 1, Len(cs)) ELSE cs

\* const s = 1 + (1 - p.life / p.maxLife) * 4, in thousandths (rounded down)
DustScale(life, maxLife) == 1000 + (1000 * DustGrowth * (maxLife - life)) \div maxLife

\* p.mat.opacity = (p.life / p.maxLife) * 0.4, in thousandths (rounded down)
DustOpacity(life, maxLife) == (DustMaxOpacity * life) \div maxLife

\* dust loop: p.life -= dt; remove at <= 0, else set the scale and the opacity
UpdateDust(ds, dt) ==
  SelectSeq([k \in 1 .. Len(ds) |->
               [ds[k] EXCEPT !.life = @ - dt,
                             !.scale = DustScale(ds[k].life - dt, ds[k].maxLife),
                             !.opacity = DustOpacity(ds[k].life - dt, ds[k].maxLife)]],
            LAMBDA p : p.life > 0)

\* ids of the chunks of cs that are no longer in kept
Dropped(cs, kept) ==
  IF Len(kept) = Len(cs) THEN {}
  ELSE {cs[k].id : k \in 1 .. Len(cs)} \ {kept[k].id : k \in 1 .. Len(kept)}

\* scene.remove(c.mesh) / physicsWorld.removeBody(c.body) for the chunks `gone`
RemoveAll(present, gone) == IF gone = {} THEN present ELSE present \ gone

\* Buildings useFrame((_, dt) => ...)
BuildingsFrame ==
  /\ phase = "idle"
  /\ sinceFrame > 0
  /\ \E dt \in {ClampDt(sinceFrame)} :
       \E live \in {RemoveExpired(AgeChunks(chunks, dt))} :
       \E kept \in {CapChunks(live)} :
         /\ material' = FadeMaterials(material, live)
         /\ chunks' = kept
         /\ sceneChunks' = RemoveAll(RemoveAll(sceneChunks, Dropped(chunks, live)), Dropped(live, kept))
         /\ worldBodies' = RemoveAll(RemoveAll(worldBodies, Dropped(chunks, live)), Dropped(live, kept))
         /\ dust' = UpdateDust(dust, dt)
  /\ phase' = "kaiju"
  /\ UNCHANGED << started, pointerLock, keys, yaw, pos, punchCooldown, buildings, destroyedSet,
                  parts, nextId, destroyed, comboCount, comboTimer, comboText, shakeAmount,
                  flashCount, now, sinceFrame, strikeAt, inputs, rng, initialized, cityMeshes >>

----------------------------------------------------------------------------
(* Frame driver (Kaiju frame callback) *)

\* body.velocity from the movement keys, integrated over dt by physicsWorld.step
StepPosition(p, ks, y, dt) ==
  IF "KeyW" \in ks
  THEN << p[1] + Forward(y)[1] * WalkSpeed * dt, p[2] + Forward(y)[2] * WalkSpeed * dt >>
  ELSE p

\* the stomp block: shakes, flashes, destroys around p
Stomp(w, p, y, seed) ==
  LET w1 == AddShake(w, ShakeStomp)
      w2 == [w1 EXCEPT !.flashCount = w1.flashCount + 1]
  IN DestroyLoop(w2, 0, "stomp", p, y, seed)

\* a stomp block that leaves the key flag as it is
ConsumeStompNever(ks) == ks

\* input.keys['Space'] = false, inside if (input.keys['Space'])
ConsumeStomp(ks) == ks \ {"Space"}

\* Kaiju useFrame((_, rawDt) => ...)
KaijuFrame ==
  /\ phase = "kaiju"
  /\ phase' = "idle"
  /\ sinceFrame' = 0
  /\ IF ~started
     THEN UNCHANGED << keys, pos, punchCooldown, buildings, destroyedSet, parts, chunks,
                       nextId, material, dust, destroyed, comboCount, comboTimer, comboText,
                       shakeAmount, flashCount, sceneChunks, worldBodies >>
     ELSE \E dt \in {ClampDt(sinceFrame)} :
          \E wStomp \in {IF "Space" \in keys THEN Stomp(World, pos, yaw, rng) ELSE World} :
          \E newPos \in {StepPosition(pos, keys, yaw, dt)} :
            /\ punchCooldown' = IF punchCooldown > 0 THEN punchCooldown - dt ELSE punchCooldown
            /\ keys' = ConsumeStomp(keys)
            /\ pos' = newPos
            /\ SetWorld(TickCombo(DestroyLoop(wStomp, 0, "ambient", newPos, yaw, rng), dt))
  /\ UNCHANGED << started, pointerLock, yaw, now, strikeAt, inputs, rng, initialized, cityMeshes >>

----------------------------------------------------------------------------
(* Construction *)

\* a group of n meshes of one kind pushed to parts, placed at height y
Part(kind, n, y) == [kind |-> kind, n |-> n, y |-> y]

\* the walls of a polygon: edge k runs from vertex k to the next, the last
\* vertex wrapping to the first (poly[(pi + 1) % poly.length])
Edge(poly, k) ==
  LET p1 == poly[k]
      p2 == poly[(k % Len(poly)) + 1]
  IN [dx |-> p2[1] - p1[1], dz |-> p2[2] - p1[2]]

\* wallLen * wallLen, and wallLen in tenths
EdgeLenSq(e) == e.dx * e.dx + e.dz * e.dz
EdgeLenTenths(e) == Sqrt(100 * EdgeLenSq(e))

\* the floors of a wall that get a window: floor < numFloors and not
\* (wy + windowH / 2 > height - 0.5)
WindowRows(h) ==
  LET numFloors == Max(1, (10 * h) \div FloorHeight)
  IN Cardinality({fl \in 0 .. numFloors - 1 :
                    ~(10 * FloorHeight * fl + WindowRise > 100 * h - WindowTopGap)})

\* the windows of all walls of a footprint: a wall shorter than wallMin gets
\* none, any other Math.max(1, Math.floor((wallLen - inset) / spacing)) per
\* floor row (inset and spacing in tenths)
WindowCount(poly, h, wallMin, inset, spacing) ==
  LET perWall(k) ==
        LET e == Edge(poly, k)
        IN IF EdgeLenSq(e) < wallMin * wallMin THEN 0
           ELSE Max(1, (EdgeLenTenths(e) - inset) \div spacing) * WindowRows(h)
  IN SumSeq([k \in 1 .. Len(poly) |-> perWall(k)])

\* windowSpacing = style === 'modern' ? 2.8 : 3.5
SpacingOf(style) == IF style = "modern" THEN WindowSpacingModern ELSE WindowSpacing

\* addWindows(group, scene, poly, height, style): the number of window panes
\* pushed (as many frames are pushed with them)
AddWindows(poly, h, style) ==
  IF style = "industrial" THEN 0
  ELSE WindowCount(poly, h, WindowWallMin, WindowInset, SpacingOf(style))

\* addCornices(group, scene, poly, height, style): the number of cornices pushed
AddCornices(poly, h, style) ==
  IF style \in {"modern", "industrial"} THEN 0
  ELSE LET levels == 1 + (IF h > CorniceMidAbove THEN 1 ELSE 0) + (IF h > CorniceLowAbove THEN 1 ELSE 0)
           walls  == Cardinality({k \in 1 .. Len(poly) :
                                    ~(EdgeLenSq(Edge(poly, k)) < CorniceWallMin * CorniceWallMin)})
       IN levels * walls

\* addGabledRoof: nothing when gableH < 1, else two slopes and two gable ends
AddGabledRoof(b) ==
  IF GablePitchPct * Min(b.bbox.w, b.bbox.d) < 100 THEN {}
  ELSE {Part("gable", GableMeshes, b.height)}

\* the Math.random() drawn in the roof branch of building i, in tenths
RoofDraw(seed, i) == Random(seed, 3 * i + 2, 10)

\* the roof branch of the build effect for residential and commercial styles;
\* the flat cap is extruded from the same shape as the body inside a
\* try / catch, so it is skipped where that extrusion throws
BuildRoof(b, ok, seed) ==
  IF b.style \in {"residential", "commercial"}
  THEN IF b.height < GableBelow /\ RoofDraw(seed, b.index) > GableChance
       THEN AddGabledRoof(b)
       ELSE IF ok THEN {Part("roofCap", 1, b.height)} ELSE {}
  ELSE {}

\* the church branch of the build effect
BuildSpire(b) ==
  IF b.style \in {"church", "basilica"} \/ b.data.l \in {"church", "basilica"}
  THEN {Part("spire", 1, b.height), Part("crossV", 1, b.height), Part("crossH", 1, b.height)}
       \cup (IF Len(b.data.p) >= 2 THEN {Part("rose", 1, b.height)} ELSE {})
  ELSE {}

\* the thinning rule alone, with no exception for landmarks
WindowsSelectedByIndex(b) == b.index % WindowEvery = 0

\* if (b.isLandmark || i % 3 === 0): the buildings addWindows is called for
WindowsSelected(b) == b.isLandmark \/ b.index % WindowEvery = 0

\* if (b.isLandmark || i % 4 === 0): the buildings addCornices is called for
CornicesSelected(b) == b.isLandmark \/ b.index % CorniceEvery = 0

\* the build effect with the error of a failed extrusion left uncaught: the
\* building gets no mesh at all
BuildPartsNoFallback(b, ok, seed) ==
  IF ok THEN {Part("body", 1, 0)} \cup BuildRoof(b, ok, seed) \cup BuildSpire(b) ELSE {}

\* the Buildings build effect: the standing parts pushed for building b;
\* ok tells whether new THREE.ExtrudeGeometry succeeds on its footprint
BuildParts(b, ok, seed) ==
  LET nWin == IF WindowsSelected(b) THEN AddWindows(b.data.p, b.height, b.style) ELSE 0
      nCor == IF CornicesSelected(b) THEN AddCornices(b.data.p, b.height, b.style) ELSE 0
  IN {IF ok THEN Part("body", 1, 0) ELSE Part("box", 1, 0)}
     \cup (IF nWin > 0 THEN {Part("frame", nWin, 0), Part("window", nWin, 0)} ELSE {})
     \cup (IF nCor > 0 THEN {Part("cornice", nCor, b.height)} ELSE {})
     \cup BuildRoof(b, ok, seed)
     \cup BuildSpire(b)

\* isChurch of CityBuildings
IsChurch(b) == b.style \in {"church", "basilica"} \/ b.data.l \in {"church", "basilica"}

\* createWallGeo without the wrap from the last vertex to the first
CreateWallGeoOpen(poly, h) ==
  LET quad(k) == [x1 |-> poly[k][1], z1 |-> -poly[k][2],
                  x2 |-> poly[k + 1][1], z2 |-> -poly[k + 1][2],
                  y0 |-> 0, y1 |-> h]
  IN SelectSeq([k \in 1 .. Len(poly) - 1 |-> quad(k)],
               LAMBDA q : ~(100 * 100 * ((q.x2 - q.x1) * (q.x2 - q.x1) + (q.z2 - q.z1) * (q.z2 - q.z1))
                              < WallMinPerCent * WallMinPerCent))

\* createWallGeo(poly, h): the quads pushed to verts, in game coordinates
\* (z = -rawZ), bottom edge at y0 and top edge at y1
CreateWallGeo(poly, h) ==
  LET quad(k) == LET p1 == poly[k]
                     p2 == poly[(k % Len(poly)) + 1]
                 IN [x1 |-> p1[1], z1 |-> -p1[2], x2 |-> p2[1], z2 |-> -p2[2],
                     y0 |-> 0, y1 |-> h]
  IN SelectSeq([k \in 1 .. Len(poly) |-> quad(k)],
               LAMBDA q : ~(100 * 100 * ((q.x2 - q.x1) * (q.x2 - q.x1) + (q.z2 - q.z1) * (q.z2 - q.z1))
                              < WallMinPerCent * WallMinPerCent))

\* CityBuildings (manual wall quads): what the walls pass and the windows pass
\* contribute for building b; the windows pass runs on all buildings
CityMesh(b) ==
  [builder |-> "quads",
   body    |-> "walls",
   walls   |-> CreateWallGeo(b.data.p, b.height),
   windows |-> WindowCount(b.data.p, b.height, CityWindowWallMin, CityWindowInset, CityWindowSpacing)]

\* CityBuildings (extruded bodies): the body or its fallback box, and the
\* windows of every second building and of the landmarks
AltMesh(b, ok) ==
  [builder |-> "extrude",
   body    |-> IF ok THEN "body" ELSE "box",
   walls   |-> <<>>,
   windows |-> IF b.isLandmark \/ b.index % AltWindowEvery = 0
               THEN WindowCount(b.data.p, b.height, WindowWallMin, WindowInset, SpacingOf(b.style))
               ELSE 0]

\* footprints given to the builders: the 10 m square, the same square with
\* its second vertex repeated, and a 2 m hut
Square10 == << <<0, 0>>, <<10, 0>>, <<10, 10>>, <<0, 10>> >>
Footprints ==
  { Square10,
    << <<0, 0>>, <<10, 0>>, <<10, 0>>, <<10, 10>>, <<0, 10>> >>,
    Rect(20, 22, 0, 2) }

\* building records { p, h, s, l, n } given to the builders
Plans ==
  { [p |-> fp, h |-> h, s |-> st, l |-> lm, n |-> ""] :
      fp \in Footprints, h \in {12, 25},
      st \in {"residential", "industrial", "modern", "church"},
      lm \in {"", "church", "tower"} }

\* the fixed building that stands next to the varied one
Neighbour == [p |-> Square10, h |-> 12, s |-> "residential", l |-> "", n |-> ""]

\* cities of two buildings: the varied building at index 0 or at index 1
BenchCities == UNION { { <<plan, Neighbour>>, <<Neighbour, plan>> } : plan \in Plans }

\* processBuildingData on a city
Registry(city) == [i \in 0 .. Len(city) - 1 |-> ProcessBuilding(city[i + 1], i)]

\* the components mounted on a loaded city, before their build effects ran
InitBuild ==
  /\ rng \in Seeds
  /\ \E city \in BenchCities : buildings = Registry(city)
  /\ parts = [i \in DOMAIN buildings |-> {}]
  /\ material = [i \in DOMAIN buildings |-> Opaque]
  /\ initialized = FALSE
  /\ cityMeshes = <<>>
  /\ started = FALSE
  /\ pointerLock = FALSE
  /\ keys = {}
  /\ yaw = 0
  /\ pos = <<0, 0>>
  /\ punchCooldown = 0
  /\ destroyedSet = {}
  /\ chunks = <<>>
  /\ nextId = 0
  /\ dust = <<>>
  /\ destroyed = 0
  /\ comboCount = 0
  /\ comboTimer = 0
  /\ comboText = <<>>
  /\ shakeAmount = 0
  /\ flashCount = 0
  /\ now = 0
  /\ sinceFrame = 0
  /\ phase = "idle"
  /\ strikeAt = -1
  /\ inputs = 0
  /\ sceneChunks = {}
  /\ worldBodies = {}

\* what the build effects leave alone
BuildFrame == UNCHANGED << started, pointerLock, keys, yaw, pos, punchCooldown, buildings,
                           destroyedSet, chunks, nextId, material, dust, destroyed, comboCount,
                           comboTimer, comboText, shakeAmount, flashCount, now, sinceFrame,
                           phase, strikeAt, inputs, rng, sceneChunks, worldBodies >>

\* the build effect of Buildings; new THREE.ExtrudeGeometry throws on the
\* footprints of the buildings in `failed`
BuildMeshes ==
  /\ ~initialized
  /\ DOMAIN buildings # {}
  /\ initialized' = TRUE
  /\ \E failed \in SUBSET DOMAIN buildings :
       parts' = [i \in DOMAIN buildings |-> BuildParts(buildings[i], i \notin failed, rng)]
  /\ UNCHANGED cityMeshes
  /\ BuildFrame

\* the build effect of CityBuildings (manual wall quads)
CityBuildingsBuild ==
  /\ cityMeshes = <<>>
  /\ DOMAIN buildings # {}
  /\ cityMeshes' = [i \in DOMAIN buildings |-> CityMesh(buildings[i])]
  /\ UNCHANGED << parts, initialized >>
  /\ BuildFrame

\* the build effect of CityBuildings (extruded bodies)
CityBuildingsAltBuild ==
  /\ cityMeshes = <<>>
  /\ DOMAIN buildings # {}
  /\ \E failed \in SUBSET DOMAIN buildings :
       cityMeshes' = [i \in DOMAIN buildings |-> AltMesh(buildings[i], i \notin failed)]
  /\ UNCHANGED << parts, initialized >>
  /\ BuildFrame

Init ==
  /\ rng \in Seeds
  /\ started = FALSE
  /\ pointerLock = FALSE
  /\ keys = {}
  /\ yaw = 0
  /\ pos = <<0, 0>>
  /\ punchCooldown = 0
  /\ buildings = ProcessBuildingData
  /\ destroyedSet = {}
  /\ parts = [i \in Indices |-> BuildParts(ProcessBuildingData[i], TRUE, rng)]
  /\ chunks = <<>>
  /\ nextId = 0
  /\ material = [i \in Indices |-> Opaque]
  /\ dust = <<>>
  /\ destroyed = 0
  /\ comboCount = 0
  /\ comboTimer = 0
  /\ comboText = <<>>
  /\ shakeAmount = 0
  /\ flashCount = 0
  /\ now = 0
  /\ sinceFrame = 0
  /\ phase = "idle"
  /\ strikeAt = -1
  /\ inputs = 0
  /\ sceneChunks = {}
  /\ worldBodies = {}
  /\ initialized = TRUE
  /\ cityMeshes = <<>>

\* the game: inputs and frames interleave freely up to MaxTime
Next ==
  \/ StartGame(MaxInputs, MaxTime)
  \/ ClickLock(MaxInputs, MaxTime)
  \/ ClickSmash(MaxInputs, MaxTime)
  \/ KeyDown(MaxInputs, MaxTime)
  \/ KeyUp(MaxInputs, MaxTime)
  \/ MouseMove(MaxInputs, MaxTime)
  \/ Advance(MaxTime)
  \/ BuildingsFrame
  \/ KaijuFrame

Spec == Init /\ [][Next]_vars

\* the debris: a few inputs or direct calls of the exposed destroy entry point
\* before the first frame, then the frames that age, fade, cap and expire the
\* chunks
NextWatch ==
  \/ StartGame(WatchInputs, 0)
  \/ KeyDown(WatchInputs, 0)
  \/ KeyUp(WatchInputs, 0)
  \/ DirectDestroy(WatchInputs, 0)
  \/ SteadyAdvance(0, WatchUntil)
  \/ BuildingsFrame
  \/ KaijuFrame

SpecWatch == Init /\ [][NextWatch]_vars

\* the builders: each build effect runs once on a loaded city, and buildings
\* are brought down through the exposed entry point once their meshes stand
NextBuild ==
  \/ BuildMeshes
  \/ CityBuildingsBuild
  \/ CityBuildingsAltBuild
  \/ (initialized /\ DirectDestroy(BuildInputs, 0))

SpecBuild == InitBuild /\ [][NextBuild]_vars

\* the expiry: buildings brought down through the exposed entry point before
\* the first frame of a game not yet started, then frames only
NextExpire ==
  \/ DirectDestroy(ExpireInputs, 0)
  \/ SteadyAdvance(0, WatchUntil)
  \/ BuildingsFrame
  \/ KaijuFrame

\* the render loop keeps running: the browser calls the frame callbacks of
\* Buildings and Kaiju again and again (requestAnimationFrame)
SpecExpire ==
  /\ Init
  /\ [][NextExpire]_vars
  /\ WF_vars(SteadyAdvance(0, WatchUntil))
  /\ WF_vars(BuildingsFrame)
  /\ WF_vars(KaijuFrame)

\* the title screen: clicks and key presses before the start, with frames at
\* any moment, and the start itself
NextIdle ==
  \/ ClickIdle(IdleInputs, IdleTime)
  \/ KeyDown(IdleInputs, IdleTime)
  \/ StartGame(IdleInputs, IdleTime)
  \/ Advance(IdleTime)
  \/ BuildingsFrame
  \/ KaijuFrame

SpecIdle == Init /\ [][NextIdle]_vars

\* the cooldown: mouse clicks only, with frames at any moment up to PunchTime
NextPunch ==
  \/ StartGame(PunchInputs, PunchTime)
  \/ ClickLock(PunchInputs, PunchTime)
  \/ ClickSmash(PunchInputs, PunchTime)
  \/ Advance(PunchTime)
  \/ BuildingsFrame
  \/ KaijuFrame

SpecPunch == Init /\ [][NextPunch]_vars

----------------------------------------------------------------------------
(* Properties *)

\* the steps of the two frame callbacks
BuildingsStep == phase = "idle" /\ phase' = "kaiju"
KaijuStep == phase = "kaiju" /\ phase' = "idle"

\* C1: once a building is in destroyedSet its destroyed flag is true and none
\* of its mesh parts stands in the scene, and a further call of
\* destroyBuilding on it changes nothing: no chunk and no dust particle is
\* appended, and the destroyed counter, the combo counter, the shake and the
\* flash overlays stay as they are.
C1_DestroyIdempotent ==
  \A i \in destroyedSet :
    /\ buildings[i].destroyed
    /\ parts[i] = {}
    /\ DestroyBuilding(World, i, rng) = World

\* C1 witness: destroyBuilding was called twice on the same building (two
\* direct calls, one building down, one counted, one flash) and frames followed
C1_Witness ==
  /\ inputs = 2 /\ ~started /\ keys = {}
  /\ Cardinality(destroyedSet) = 1
  /\ destroyed = 1 /\ comboCount = 1 /\ flashCount = 1
  /\ now > 0

\* C2: the chunk list never holds more than 400 chunks, in any reachable
\* state, the states between a destroyBuilding call and the next Buildings
\* frame included.
C2_ChunkCap == Len(chunks) <= MaxChunks

IdsOf(cs) == {cs[k].id : k \in 1 .. Len(cs)}
InCreationOrder(cs) == \A k \in 1 .. Len(cs) - 1 : cs[k].id < cs[k + 1].id

\* C3: the chunk list is always in creation order, and a Buildings frame
\* leaves the chunks that survive expiry, less the oldest of them when they
\* are more than 400: exactly 400 stay and every evicted survivor is older
\* than every chunk kept, whatever its remaining life.
C3_OldestFirstEviction ==
  [][/\ InCreationOrder(chunks')
     /\ BuildingsStep =>
          LET dt        == Min(sinceFrame, MaxDt)
              survivors == {chunks[k].id : k \in {j \in 1 .. Len(chunks) : chunks[j].life - dt > 0}}
              kept      == IdsOf(chunks')
          IN /\ kept \subseteq survivors
             /\ Len(chunks') = Min(Cardinality(survivors), MaxChunks)
             /\ \A e \in survivors \ kept : e < chunks'[1].id]_vars

\* C3 witness: a Buildings frame has just evicted the oldest chunks: 400 are
\* left and the first chunk ever created is no longer among them
C3_Witness ==
  /\ phase = "kaiju"
  /\ Len(chunks) = MaxChunks
  /\ chunks[1].id > 0

\* the opacity a chunk is drawn with: that of the material of its mesh
RenderedOpacity(c) == material[c.owner].opacity

\* C4: after every Buildings frame each chunk whose remaining life is below
\* 1.5 s is drawn with opacity life / 1.5, its own, and each chunk with 1.5 s
\* or more to live is drawn unfaded, also when chunks of one building share
\* one cloned material.
C4_ChunkFade ==
  phase = "kaiju" =>
    \A k \in 1 .. Len(chunks) :
      LET c == chunks[k]
          o == RenderedOpacity(c)
      IN IF c.life < FadeTime
         THEN o.num * FadeTime = c.life * o.den
         ELSE o.num = o.den

\* C5: of two clicks less than 0.3 s of real time apart only the first passes
\* the cooldown guard: two strikes that take effect are at least 0.3 s apart.
C5_MeleeCooldown ==
  [][(strikeAt' # strikeAt /\ strikeAt >= 0) => strikeAt' - strikeAt >= PunchCooldown]_vars

\* squared horizontal distance from p to the centroid of building i
CentroidDistSq(i, p) ==
  LET c == buildings[i].centroid
  IN (c[1] - p[1]) * (c[1] - p[1]) + (c[2] - p[2]) * (c[2] - p[2])

\* a click that passed the cooldown guard
StrikeStep == strikeAt' # strikeAt

\* C6: a melee strike that takes effect, from position p with forward
\* direction f, destroys a standing building iff its centroid distance d is
\* below radius + 12 and (the dot product of the vector to the centroid with
\* f is positive or d is below 8).
C6_MeleeEligibility ==
  [][StrikeStep =>
       \A i \in DOMAIN buildings :
         ~buildings[i].destroyed =>
           LET dx    == buildings[i].centroid[1] - pos[1]
               dz    == buildings[i].centroid[2] - pos[2]
               f     == Forward(yaw)
               reach == buildings[i].radius + MeleeRange
               d2    == CentroidDistSq(i, pos)
           IN buildings'[i].destroyed <=>
                /\ d2 < reach * reach
                /\ (dx * f[1] + dz * f[2] > 0 \/ d2 < ShortRange * ShortRange)]_vars

\* C6 witness: a strike at spawn facing -z took the building 6 m behind (short
\* range) and the church 24 m ahead (reach 29), spared the building 14 m
\* behind and the one 25 m ahead (reach 19)
C6_Witness ==
  /\ strikeAt = now /\ now = 0
  /\ pos = <<0, 0>> /\ yaw = 0
  /\ destroyedSet = {0, 1}
  /\ ~buildings[2].destroyed /\ ~buildings[3].destroyed

\* a started tick that processes a stomp
StompStep == KaijuStep /\ started /\ "Space" \in keys

\* within the walk-through radius of the position after the physics step
WalkedInto(i, p) ==
  CentroidDistSq(i, p) < (buildings[i].radius + CharacterRadius) * (buildings[i].radius + CharacterRadius)

\* C7 as stated: a stomp at p destroys every standing building whose centroid
\* is within 25 units of p (25 included), and none farther than 25 units.
C7_StompWithin25 ==
  [][StompStep =>
       \A i \in DOMAIN buildings :
         ~buildings[i].destroyed =>
           /\ CentroidDistSq(i, pos) <= StompRadiusSq => buildings'[i].destroyed
           /\ (CentroidDistSq(i, pos) > StompRadiusSq /\ ~WalkedInto(i, pos'))
                => ~buildings'[i].destroyed]_vars

\* C7 as amended: a stomp at p destroys every standing building whose
\* centroid is strictly less than 25 units from p, regardless of facing, and
\* none whose centroid is 25 units or farther from p.
C7_StompStrictlyInside ==
  [][StompStep =>
       \A i \in DOMAIN buildings :
         ~buildings[i].destroyed =>
           /\ CentroidDistSq(i, pos) < StompRadiusSq => buildings'[i].destroyed
           /\ (CentroidDistSq(i, pos) >= StompRadiusSq /\ ~WalkedInto(i, pos'))
                => ~buildings'[i].destroyed]_vars

\* C7 witness: a stomp at spawn took the buildings 6, 24 and 14 m away, one of
\* them behind, and left the one whose centroid is exactly 25 m away
C7_Witness ==
  /\ started /\ inputs = 2 /\ "Space" \notin keys
  /\ pos = <<0, 0>>
  /\ destroyedSet = {0, 1, 2}
  /\ CentroidDistSq(3, pos) = StompRadiusSq
  /\ ~buildings[3].destroyed
  /\ flashCount = 4

\* C8: at the end of every started tick no standing building has its centroid
\* closer than radius + 4 to the position after the physics step: each such
\* building went through destroyBuilding in that tick.
C8_AmbientClearance ==
  [][(KaijuStep /\ started) =>
       \A i \in DOMAIN buildings :
         LET collR == buildings[i].radius + CharacterRadius
         IN CentroidDistSq(i, pos') < collR * collR
              => buildings'[i].destroyed /\ i \in destroyedSet' /\ parts'[i] = {}]_vars

\* C8 witness: with no key and no click, the first started tick destroyed the
\* building the kaiju spawns inside of (6 < 7 + 4) and only that one
C8_Witness ==
  /\ started /\ inputs = 1 /\ phase = "idle" /\ now > 0
  /\ pos = <<0, 0>>
  /\ destroyedSet = {0}
  /\ buildings[0].destroyed

\* the integer nearest to len / size, halves up
Nearest(len, size) ==
  CHOOSE n \in 0 .. len : 2 * size * n <= 2 * len + size /\ 2 * len + size < 2 * size * (n + 1)

\* countX * countZ * countY for a footprint bounding box w by d and height h
GridCount(w, d, h) ==
  Max(2, Nearest(w, ChunkSizeXZ)) * Max(2, Nearest(d, ChunkSizeXZ)) * Max(2, Nearest(h, ChunkSizeY))

\* a building of 9 by 9 m and 8 m height
Block9x9x8 == [index |-> 0, height |-> 8, bbox |-> [w |-> 9, d |-> 9]]

\* C9: the first destruction of a building appends countX * countZ * countY
\* chunks, the counts being max(2, round(width / 3)), max(2, round(depth / 3))
\* and max(2, round(height / 4)); that is at least 8, and 18 for a footprint
\* of 9 by 9 with height 8.
C9_ChunkCount ==
  [][/\ \A i \in destroyedSet' \ destroyedSet :
          LET b == buildings[i]
              n == GridCount(b.bbox.w, b.bbox.d, b.height)
          IN /\ Cardinality({k \in 1 .. Len(chunks') : chunks'[k].owner = i}) = n
             /\ n >= 8
     /\ Len(NewChunks(Block9x9x8, nextId, rng)) = 18]_vars

\* C9 witness: one stomp destroyed three buildings; their 12 + 432 + 12 chunks
\* are all in the list
C9_Witness ==
  /\ destroyedSet = {0, 1, 2}
  /\ nextId = 456
  /\ Len(chunks) = 456

\* C10: the registry keeps its length and order and every field of a building
\* but `destroyed`, which only goes from false to true; it changes only
\* together with the score counter, one count per flag (the store's
\* destroyBuilding is its only writer).
C10_DestroyedMonotone ==
  [][/\ DOMAIN buildings' = DOMAIN buildings
     /\ \A i \in DOMAIN buildings :
          /\ [buildings'[i] EXCEPT !.destroyed = FALSE] = [buildings[i] EXCEPT !.destroyed = FALSE]
          /\ buildings'[i].index = i
          /\ buildings[i].destroyed => buildings'[i].destroyed
     /\ destroyed' - destroyed =
          Cardinality({i \in DOMAIN buildings : buildings'[i].destroyed /\ ~buildings[i].destroyed})]_vars

\* C10 witness: after destructions in separate ticks and further frames the
\* destroyed buildings still carry the flag, the standing one does not
C10_Witness ==
  /\ buildings[0].destroyed /\ buildings[1].destroyed
  /\ ~buildings[3].destroyed
  /\ destroyed = Cardinality(destroyedSet)
  /\ comboCount >= 2
  /\ now >= 2 /\ sinceFrame = 0

\* the indices whose store flag is set
Flagged(bs) == {i \in DOMAIN bs : bs[i].destroyed}

\* C11: once the meshes are built, the store flag of a building is set if
\* and only if its mesh group has no parts left
C11_FlagMatchesMeshGroup ==
  initialized => \A i \in Indices : buildings[i].destroyed <=> parts[i] = {}

\* one building shattered and flagged while its neighbours stand with their parts
C11_Witness ==
  /\ initialized
  /\ Flagged(buildings) = {0}
  /\ parts[0] = {}
  /\ \A i \in Indices \ {0} : parts[i] # {}

\* C12: the destroyed counter of the store equals the number of flags set and
\* never exceeds the number of buildings, also when the stomp and the
\* walk-through test select the same building in one frame
C12_CounterMatchesFlags ==
  /\ destroyed = Cardinality(Flagged(buildings))
  /\ destroyed <= NumBuildings

\* after a frame whose stomp and walk-through test both selected building 0:
\* three buildings fell and the counter reads three
C12_Witness ==
  /\ destroyed = 3
  /\ Flagged(buildings) = {0, 1, 2}
  /\ StompHit(buildings[0], pos)
  /\ AmbientHit(buildings[0], pos)
  /\ strikeAt = -1
  /\ phase = "idle"
  /\ "Space" \notin keys

\* the buildings eligible for a loop of the Kaiju when it starts
Eligible(kind, p, y) ==
  {i \in Indices :
     /\ ~buildings[i].destroyed
     /\ CASE kind = "melee"   -> MeleeHit(buildings[i], p, y)
          [] kind = "stomp"   -> StompHit(buildings[i], p)
          [] kind = "ambient" -> AmbientHit(buildings[i], p)}

\* the owners of the chunks appended by a step
NewOwners == {chunks'[k].owner : k \in Len(chunks) + 1 .. Len(chunks')}

\* C13: a melee strike, a stomp and the walk-through pass destroy exactly the
\* buildings that were eligible when the pass started; every other building
\* keeps its flag and its mesh group, and debris is created for the eligible
\* buildings only
C13_OnlyEligibleDestroyed ==
  [][ (StrikeStep \/ KaijuStep) =>
        LET hit == (IF StrikeStep THEN Eligible("melee", pos, yaw) ELSE {})
                   \cup (IF StompStep THEN Eligible("stomp", pos, yaw) ELSE {})
                   \cup (IF KaijuStep /\ started THEN Eligible("ambient", pos', yaw) ELSE {})
        IN /\ Flagged(buildings') = Flagged(buildings) \cup hit
           /\ destroyedSet' = destroyedSet \cup hit
           /\ \A i \in Indices \ hit : buildings'[i] = buildings[i] /\ parts'[i] = parts[i]
           /\ \A i \in hit : parts'[i] = {}
           /\ SubSeq(chunks', 1, Len(chunks)) = chunks
           /\ NewOwners = hit
           /\ hit = {} => dust' = dust /\ destroyed' = destroyed
    ]_vars

\* a strike facing the two buildings in front took both and nothing else
C13_Witness ==
  /\ strikeAt = now
  /\ yaw = 2
  /\ destroyedSet = {0, 2}
  /\ parts[1] # {} /\ parts[3] # {}
  /\ {chunks[k].owner : k \in 1 .. Len(chunks)} = {0, 2}

\* a document click delivered to performSmash
ClickStep ==
  /\ inputs' # inputs
  /\ started /\ pointerLock
  /\ UNCHANGED << started, pointerLock, keys, yaw >>

\* C14: a melee strike requested while the punch cooldown is positive does
\* nothing: the cooldown keeps its value, and flags, mesh groups, chunks,
\* dust, score and shake are unchanged
C14_BlockedStrikeIsNoOp ==
  [][ ClickStep /\ punchCooldown > 0 =>
        UNCHANGED << punchCooldown, buildings, destroyedSet, parts, chunks, nextId,
                     material, dust, destroyed, comboCount, comboTimer, comboText,
                     shakeAmount, flashCount, strikeAt, sceneChunks, worldBodies >>
    ]_vars

\* a second click arrived during the cooldown of the first: four inputs, one strike
C14_Witness ==
  /\ inputs = 4
  /\ started /\ pointerLock
  /\ keys = {} /\ yaw = 0
  /\ strikeAt = 0
  /\ punchCooldown \in 1 .. PunchCooldown - 1
  /\ ~buildings[2].destroyed


\* C19: after every Buildings frame no chunk in the list has life <= 0, and
\* the chunk meshes in the scene and the chunk bodies in the physics world are
\* exactly those of the chunks in the list
C19_NoExpiredChunkLeft ==
  phase = "kaiju" =>
    /\ \A k \in 1 .. Len(chunks) : chunks[k].life > 0
    /\ sceneChunks = IdsOf(chunks)
    /\ worldBodies = IdsOf(chunks)

\* a frame has just expired some chunks of a collapse and kept the others
C19_Witness ==
  /\ phase = "kaiju"
  /\ 0 < Len(chunks) /\ Len(chunks) < nextId
  /\ nextId <= MaxChunks
  /\ sceneChunks = IdsOf(chunks)

\* C20: every chunk is removed in the end. A chunk starts with less than 8 s
\* of life and each frame takes the clamped dt off it, so a Buildings frame
\* that ends 8 s of accumulated frame time or more after the last destruction
\* (here at time 0) leaves the list empty; and under fair frames a list that
\* holds chunks becomes empty
C20_ChunksEventuallyRemoved ==
  /\ [](\A k \in 1 .. Len(chunks) : chunks[k].life < LifeMin + LifeSpan)
  /\ [](phase = "kaiju" /\ now >= LifeMin + LifeSpan => chunks = <<>>)
  /\ (chunks # <<>>) ~> (chunks = <<>>)

\* the debris of a collapse is gone before 8 s of frames have passed
C20_Witness ==
  /\ chunks = <<>>
  /\ nextId > 0
  /\ now > LifeMin
  /\ now <= LifeMin + LifeSpan
  /\ sceneChunks = {} /\ worldBodies = {}


\* the kinds of mesh standing in a mesh group
Kinds(ps) == {q.kind : q \in ps}

\* C15: a building of style industrial gets no window and no window frame,
\* whatever its footprint, height, index and landmark flag, from Buildings and
\* from both CityBuildings builders
C15_IndustrialHasNoWindows ==
  \A i \in DOMAIN buildings :
    buildings[i].style = "industrial" =>
      /\ Kinds(parts[i]) \cap {"window", "frame"} = {}
      /\ cityMeshes # <<>> => cityMeshes[i].windows = 0

\* C16: the roof decision tree gives every standing building exactly one
\* variant: a church (by style or landmark category) has spire, cross and flat
\* cap; a residential or commercial building below 20 m has either the gabled
\* roof or the flat cap; every other building has the flat cap at y = height
C16_ExactlyOneRoof ==
  initialized =>
    \A i \in DOMAIN buildings \ destroyedSet :
      LET b == buildings[i]
          k == Kinds(parts[i])
          flat == Part("roofCap", 1, b.height) \in parts[i]
      IN IF IsChurch(b)
         THEN {"spire", "crossV", "crossH"} \subseteq k /\ flat /\ "gable" \notin k
         ELSE /\ "spire" \notin k
              /\ IF b.style \in {"residential", "commercial"} /\ b.height < GableBelow
                 THEN ("gable" \in k) # flat
                 ELSE flat /\ "gable" \notin k

\* the wall over edge k of a footprint, from vertex k to the next one round
\* the polygon, in game coordinates
QuadOver(poly, k, h) ==
  LET a == poly[k]
      c == IF k = Len(poly) THEN poly[1] ELSE poly[k + 1]
  IN [x1 |-> a[1], z1 |-> -a[2], x2 |-> c[1], z2 |-> -c[2], y0 |-> 0, y1 |-> h]

\* the edges of a footprint of length 0.01 or more
LongEdges(poly) ==
  {k \in 1 .. Len(poly) :
     LET q == QuadOver(poly, k, 0)
     IN 100 * 100 * ((q.x2 - q.x1) * (q.x2 - q.x1) + (q.z2 - q.z1) * (q.z2 - q.z1)) >= 1}

\* C17: the walls of a building are one quad per polygon edge of length 0.01
\* or more, the last vertex wrapping to the first, each from y = 0 to
\* y = height, and none for a shorter edge; the 10 m square of height 12 gives
\* the closed loop of its four walls
C17_OneQuadPerEdge ==
  (cityMeshes # <<>>) =>
    \A i \in DOMAIN cityMeshes :
      cityMeshes[i].builder = "quads" =>
        LET poly  == buildings[i].data.p
            h     == buildings[i].height
            walls == cityMeshes[i].walls
        IN /\ Len(walls) = Cardinality(LongEdges(poly))
           /\ \A k \in LongEdges(poly) : \E j \in 1 .. Len(walls) : walls[j] = QuadOver(poly, k, h)
           /\ \A j \in 1 .. Len(walls) :
                /\ walls[j].y0 = 0 /\ walls[j].y1 = h
                /\ \E k \in LongEdges(poly) : walls[j] = QuadOver(poly, k, h)
           /\ (poly = Square10 /\ h = 12) =>
                walls = << [x1 |-> 0,  z1 |-> 0,   x2 |-> 10, z2 |-> 0,   y0 |-> 0, y1 |-> 12],
                           [x1 |-> 10, z1 |-> 0,   x2 |-> 10, z2 |-> -10, y0 |-> 0, y1 |-> 12],
                           [x1 |-> 10, z1 |-> -10, x2 |-> 0,  z2 |-> -10, y0 |-> 0, y1 |-> 12],
                           [x1 |-> 0,  z1 |-> -10, x2 |-> 0,  z2 |-> 0,   y0 |-> 0, y1 |-> 12] >>

\* walls stand for the 10 m square of height 12 (four quads) and for the
\* footprint with a repeated vertex (five edges, four quads)
C17_Witness ==
  /\ cityMeshes # <<>>
  /\ cityMeshes[0].builder = "quads"
  /\ buildings[1].data.p = Square10 /\ buildings[1].height = 12
  /\ Len(cityMeshes[1].walls) = 4
  /\ Len(buildings[0].data.p) = 5
  /\ Len(cityMeshes[0].walls) = 4

\* C18: a failed extrusion does not stop the build: after the build effect
\* every building has its mesh group with exactly one body, the extruded one
\* or the bounding-box fallback; and destroyBuilding on a building that
\* stands as a fallback box empties its mesh group, flags it and creates its
\* chunk grid
C18_FallbackRecovers ==
  /\ [](initialized =>
          /\ DOMAIN parts = DOMAIN buildings
          /\ \A i \in DOMAIN buildings \ destroyedSet :
               Cardinality(parts[i] \cap {Part("body", 1, 0), Part("box", 1, 0)}) = 1)
  /\ [][ \A i \in DOMAIN buildings :
           (Part("box", 1, 0) \in parts[i] /\ i \in destroyedSet' \ destroyedSet) =>
             /\ parts'[i] = {}
             /\ buildings'[i].destroyed
             /\ Len(chunks') = Len(chunks) + GridCount(buildings[i].bbox.w, buildings[i].bbox.d,
                                                       buildings[i].height)
             /\ NewOwners = {i}
             /\ \A j \in DOMAIN buildings \ {i} : parts'[j] = parts[j]
       ]_vars

\* the extrusion of building 0 failed: it stands as a box next to the extruded
\* body of building 1
C18_Witness ==
  /\ initialized
  /\ destroyedSet = {}
  /\ Part("box", 1, 0) \in parts[0]
  /\ Part("body", 1, 0) \in parts[1]

----------------------------------------------------------------------------
(* Frame delta clamp *)

\* C21: whatever the raw frame delta, a Buildings frame lowers the remaining
\* life of every chunk and of every dust particle it keeps by no more than
\* 0.05 s, and a Kaiju frame lowers the punch cooldown by no more than 0.05 s.
\* A chunk starts with the life of at least 100 such frames, and a frame
\* removes a chunk that had more than 0.05 s left only through the cap: so
\* expiry takes no chunk in fewer than 100 frames.
C21_TickClamped ==
  [][/\ \A k \in 1 .. Len(chunks') :
          chunks'[k].id >= nextId => chunks'[k].life >= 100 * MaxDt
     /\ BuildingsStep =>
          LET before == {<< chunks[k].id, chunks[k].life >> : k \in 1 .. Len(chunks)}
              after  == {<< chunks'[k].id, chunks'[k].life >> : k \in 1 .. Len(chunks')}
              kept   == IdsOf(chunks')
          IN /\ \A a \in after : \E d \in 0 .. MaxDt : << a[1], a[2] + d >> \in before
             /\ \A b \in before :
                  b[1] \notin kept /\ b[2] > MaxDt =>
                    Len(chunks') = MaxChunks /\ b[1] < chunks'[1].id
             /\ \E d \in 0 .. MaxDt :
                  [k \in 1 .. Len(dust') |-> dust'[k].life] =
                    SelectSeq([k \in 1 .. Len(dust) |-> dust[k].life - d], LAMBDA l : l > 0)
     /\ KaijuStep =>
          /\ punchCooldown' <= punchCooldown
          /\ punchCooldown' >= punchCooldown - MaxDt]_vars

\* C21 witness: one frame has run, after a raw delta longer than the clamp:
\* the cooldown of the strike and the life of the oldest chunk are down by
\* 0.05 s only.
C21_Witness ==
  /\ started
  /\ phase = "idle"
  /\ sinceFrame = 0
  /\ now = MaxRawDt
  /\ MaxRawDt > MaxDt
  /\ punchCooldown = PunchCooldown - MaxDt
  /\ chunks # << >>
  /\ chunks[1].life = LifeMin + Random(rng, chunks[1].id, LifeSpan) - MaxDt

----------------------------------------------------------------------------
(* Dust rendering *)

\* C22: after every Buildings frame every live dust particle has the
\* opacity (life / maxLife) * 0.4, which is at most 0.4, and the scale
\* 1 + (1 - life / maxLife) * 4, which is at least 1, for every life and
\* maxLife a spawn draws.
C22_DustRendering ==
  [][BuildingsStep =>
       \A k \in 1 .. Len(dust') :
         LET p == dust'[k]
         IN /\ p.opacity = (400 * p.life) \div p.maxLife
            /\ p.opacity <= 400
            /\ p.scale = 1000 + (4000 * (p.maxLife - p.life)) \div p.maxLife
            /\ p.scale >= 1000]_vars

----------------------------------------------------------------------------
(* Chunk grid *)

\* the mesh made for the chunk c of building b
MeshOf(c, b) ==
  ChunkMesh(b, CountX(b), CountZ(b), c.cell[1], c.cell[2], c.cell[3], c.id, rng)

\* C23: every chunk is created on the centre of a grid cell of its own, with
\* each dimension between 0.65 and 1.0 times that of the cell, so that its box
\* stays inside that cell: the chunks of a building, each in another cell, do
\* not overlap one another at creation, and each lies inside the bounding box
\* horizontally and between 0 and the height vertically.  Along an axis cut
\* in n cells, positions are counted in units of 1 / (200 n) of a metre; the
\* scene mirrors z, so the cell iz is the cell nz - 1 - iz from -maxZ.
C23_ChunksInsideCells ==
  [][\A i \in NewOwners :
       LET b    == buildings[i]
           dim  == << b.bbox.w, b.height, b.bbox.d >>
           n    == << CountX(b), CountY(b), CountZ(b) >>
           low  == << b.bbox.minX, 0, -b.bbox.maxZ >>
           mine == {k \in Len(chunks) + 1 .. Len(chunks') : chunks'[k].owner = i}
       IN /\ Cardinality({chunks'[k].cell : k \in mine}) = Cardinality(mine)
          /\ \A k \in mine :
               LET c    == chunks'[k]
                   mesh == MeshOf(c, b)
                   at   == << c.cell[1], c.cell[3], n[3] - 1 - c.cell[2] >>
               IN \A a \in 1 .. 3 :
                    LET cellLow  == 200 * (n[a] * low[a] + dim[a] * at[a])
                        cellHigh == 200 * (n[a] * low[a] + dim[a] * (at[a] + 1))
                        boxLow   == 100 * mesh.spawnAt[a] - mesh.size[a]
                        boxHigh  == 100 * mesh.spawnAt[a] + mesh.size[a]
                    IN /\ at[a] \in 0 .. n[a] - 1
                       /\ 200 * mesh.spawnAt[a] = cellLow + cellHigh
                       /\ SizeMinPct * dim[a] <= mesh.size[a]
                       /\ mesh.size[a] <= 100 * dim[a]
                       /\ cellLow <= boxLow /\ boxHigh <= cellHigh
                       /\ 200 * n[a] * low[a] <= boxLow
                       /\ boxHigh <= 200 * n[a] * (low[a] + dim[a])]_vars

\* C23 witness: a building 10 m wide, whose cells are 10/3 m wide, has been
\* broken into chunks, one of them wider than 0.65 of its cell.
C23_Witness ==
  \E k \in 1 .. Len(chunks) :
    /\ buildings[chunks[k].owner].bbox.w = 10
    /\ CountX(buildings[chunks[k].owner]) = 3
    /\ MeshOf(chunks[k], buildings[chunks[k].owner]).size[1] > SizeMinPct * 10

----------------------------------------------------------------------------
(* Dust bursts *)

\* 25 + floor(1.5 * max(bbox.w, bbox.d, height)) for building i
Burst(i) ==
  LET b == buildings[i]
      m == Max(b.bbox.w, Max(b.bbox.d, b.height))
  IN 25 + (m + m \div 2)

\* C24: a step that destroys buildings appends, for each of them, exactly
\* 25 + floor(1.5 * max(bbox.w, bbox.d, height)) dust particles behind the
\* particles already there; a call of destroyBuilding for a building
\* already destroyed appends none.
C24_DustPerDestruction ==
  [][~BuildingsStep =>
       /\ Len(dust') =
            Len(dust) + SumSeq([k \in 1 .. Cardinality(DOMAIN buildings) |->
                                  IF (k - 1) \in destroyedSet' \ destroyedSet
                                  THEN Burst(k - 1) ELSE 0])
       /\ SubSeq(dust', 1, Len(dust)) = dust
       /\ dust' # dust => destroyedSet' # destroyedSet]_vars

\* C24 witness: the entry point was called twice and one building is down,
\* 25 m high on a footprint of 10 m: the one burst of 25 + floor(37.5) = 62
\* particles is all the dust there is.
C24_Witness ==
  /\ inputs = 2
  /\ Cardinality(destroyedSet) = 1
  /\ \E i \in destroyedSet : buildings[i].height = 25 /\ buildings[i].bbox.w = 10
  /\ Len(dust) = 62

----------------------------------------------------------------------------
(* Detail passes *)

\* the standing parts of building i that the passes `kinds` pushed
PartsOfKind(i, kinds) == {q \in parts[i] : q.kind \in kinds}

\* C25: the window pass and the cornice pass are run for every landmark,
\* whatever its index, and for another building only when the thinning
\* rule picks its index (every 3rd for windows, every 4th for cornices): a
\* standing building has the windows, and the cornices, the pass yields for
\* its footprint, height and style if it is a landmark or picked, and none
\* otherwise.
C25_LandmarksGetDetail ==
  initialized =>
    \A i \in DOMAIN buildings :
      ~buildings[i].destroyed =>
        LET b    == buildings[i]
            nWin == AddWindows(b.data.p, b.height, b.style)
            nCor == AddCornices(b.data.p, b.height, b.style)
        IN /\ PartsOfKind(i, {"frame", "window"}) =
                IF (b.isLandmark \/ i % 3 = 0) /\ nWin > 0
                THEN {Part("frame", nWin, 0), Part("window", nWin, 0)} ELSE {}
           /\ PartsOfKind(i, {"cornice"}) =
                IF (b.isLandmark \/ i % 4 = 0) /\ nCor > 0
                THEN {Part("cornice", nCor, b.height)} ELSE {}

\* C25 witness: the meshes stand, and the building at index 1, which neither
\* rule picks, is a landmark with windows and cornices.
C25_Witness ==
  /\ initialized
  /\ buildings[1].isLandmark
  /\ ~buildings[1].destroyed
  /\ PartsOfKind(1, {"window"}) # {}
  /\ PartsOfKind(1, {"cornice"}) # {}

----------------------------------------------------------------------------
(* The two destruction records *)

\* C26: in every state destroyedSet holds the index i if and only if the
\* destroyed flag of building i is set.
C26_SetMatchesFlags == destroyedSet = Flagged(buildings)

\* C26 witness: two buildings were brought down one after the other and
\* frames have run since: both are in destroyedSet and both are flagged.
C26_Witness ==
  /\ destroyedSet = {1, 3}
  /\ buildings[1].destroyed /\ buildings[3].destroyed
  /\ now > 0

----------------------------------------------------------------------------
(* Combo *)

\* C27: the combo count is above 0 if and only if the combo timer is, and
\* the timer stays between 0 and 2.5 s (100 steps); a destruction adds one to the count
\* and sets the timer to 2.5 s; the frame that brings the timer to 0 or below
\* sets the timer and the count to 0 and clears the text, all at once.
C27_ComboCountAndTimer ==
  /\ [](/\ (comboCount > 0 <=> comboTimer > 0)
        /\ comboTimer >= 0 /\ comboTimer <= 100
        /\ comboCount >= 0)
  /\ [][/\ ~KaijuStep /\ destroyed' > destroyed =>
             /\ comboCount' = comboCount + (destroyed' - destroyed)
             /\ comboTimer' = 100
        /\ KaijuStep /\ started =>
             LET dt == Min(sinceFrame, MaxDt)
             IN IF destroyed' > destroyed
                THEN /\ comboTimer' = 100 - dt
                     /\ comboCount' =
                          (IF comboTimer > 0 THEN comboCount ELSE 0) + (destroyed' - destroyed)
                ELSE IF comboTimer > 0 /\ comboTimer - dt <= 0
                THEN comboTimer' = 0 /\ comboCount' = 0 /\ comboText' = << >>
                ELSE /\ comboCount' = comboCount
                     /\ comboTimer' = IF comboTimer > 0 THEN comboTimer - dt ELSE 0
                     /\ comboText' = comboText]_vars

\* C27 witness: buildings came down in a started game and the combo has run
\* out since: the score is kept, the count and the timer are back at 0.
C27_Witness ==
  /\ started
  /\ destroyed > 0
  /\ comboCount = 0 /\ comboTimer = 0 /\ comboText = << >>
  /\ now >= 100

----------------------------------------------------------------------------
(* Camera shake *)

\* C28: the shake amount stays between 0 and 3.0 whatever number of
\* destructions (0.8 each), stomps (2.0) and strikes (0.3) ask for shake in
\* one frame; a frame of a started game in which nothing asks for shake
\* lowers a positive amount, to 0 or to a value of at least 0.01, so that
\* repeated frames bring it to exactly 0: with the kaiju standing still it
\* is 0 from 2.3 s (92 steps) after the start on.
C28_ShakeBounded ==
  /\ [](/\ shakeAmount >= 0 /\ shakeAmount <= 3000
        /\ (started /\ "KeyW" \notin keys /\ now >= 92 /\ phase = "idle" => shakeAmount = 0))
  /\ [][KaijuStep /\ started /\ "Space" \notin keys /\ destroyed' = destroyed =>
          /\ shakeAmount > 0 => shakeAmount' < shakeAmount
          /\ shakeAmount' = 0 \/ shakeAmount' >= 10]_vars

\* C28 witness: a stomp (2.0) brought three buildings down (0.8 each) in one
\* frame, more than the cap lets through, and the frames since have brought
\* the shake to 0.
C28_Witness ==
  /\ started
  /\ flashCount = 4 /\ destroyed = 3
  /\ shakeAmount = 0
  /\ now > 0

----------------------------------------------------------------------------
(* Before the start *)

\* C29: while the game has not started no building can be destroyed: a click
\* or a frame leaves the destroyed flag of every building, the chunk list,
\* the dust list and the score as they are, and they are as at load.
C29_NothingBeforeStart ==
  /\ [](~started =>
          /\ Flagged(buildings) = {} /\ destroyedSet = {}
          /\ chunks = << >> /\ dust = << >>
          /\ destroyed = 0)
  /\ [][~started => UNCHANGED << buildings, destroyedSet, chunks, dust, destroyed >>]_vars

\* C29 witness: on the title screen Space was pressed, the canvas was clicked
\* twice and a frame has run: the game has not started.
C29_Witness ==
  /\ ~started
  /\ inputs = 3
  /\ keys = {"Space"}
  /\ now > 0 /\ sinceFrame = 0 /\ phase = "idle"
  /\ destroyed = 0

----------------------------------------------------------------------------
(* Stomp request *)

\* C30: a frame of a started game leaves the Space flag false, and stomps
\* (one flash besides those of the buildings it brings down) exactly when
\* the flag was set, whatever the punch cooldown, which it lowers by the
\* frame delta as any other frame does; the flag is set by a key-down event
\* only, so one key-down causes at most one stomp.
C30_StompConsumed ==
  [][/\ KaijuStep /\ started =>
          /\ "Space" \notin keys'
          /\ flashCount' = flashCount + Cardinality(destroyedSet' \ destroyedSet)
                             + (IF "Space" \in keys THEN 1 ELSE 0)
          /\ punchCooldown' = IF punchCooldown > 0
                              THEN punchCooldown - Min(sinceFrame, MaxDt)
                              ELSE punchCooldown
     /\ "Space" \notin keys /\ "Space" \in keys' => inputs' = inputs + 1]_vars

\* C30 witness: a strike at time 0 started the cooldown, and a frame after
\* it stomped once while the cooldown was still running: one flash more than
\* buildings down, the Space flag cleared.
C30_Witness ==
  /\ started
  /\ strikeAt = 0
  /\ punchCooldown > 0
  /\ flashCount = destroyed + 1
  /\ "Space" \notin keys
  /\ now > 0 /\ phase = "idle"

====
